---- MODULE Spec2Model ----
(***************************************************************************)
(* Streamlit app streamlit_pptx_app.py: every interaction of a browser     *)
(* session re-runs the script top to bottom.  A run imports reportlab,     *)
(* passes the ImportError guard, draws the page and, when the button was   *)
(* clicked, renders ten slides into cloud_security_ccsp.pdf (one doc.build *)
(* per slide), reads the file, offers the bytes for download and removes   *)
(* the file.  The file lives in the server's working directory, which all  *)
(* sessions share.                                                         *)
(***************************************************************************)
EXTENDS Integers, Sequences, FiniteSets, TLC

\* Longest `graphics` list passed to create_slide.
MaxGraphics == 2

\* Script runs (page load and reruns) modelled per browser session.
MaxRuns == 3

\* Number of slides = number of doc.build calls in generate_pdf.
NumSlides == 10

\* Browser sessions of the one server process.
Sessions == {1, 2}

NoSession == 0

VARIABLES
    reportlab,  \* TRUE iff the reportlab package is importable
    fs,         \* cloud_security_ccsp.pdf: [exists, pages, writer]
    pc,         \* pc[s]: position of session s in its current script run
    runs,       \* runs[s]: script runs started by session s
    clicked,    \* clicked[s]: what st.button returns in the current run
    slide,      \* slide[s]: slide being assembled by generate_pdf
    story,      \* story[s]: the local list `story`
    pdf_file,   \* pdf_file[s]: path returned by generate_pdf ("" before)
    pdf_bytes,  \* pdf_bytes[s]: result of f.read() (<<>> before)
    log,        \* log[s]: calls made and errors raised by the current run
    offers,     \* offers[s]: data handed to st.download_button, over all runs
    afters,     \* afters[s]: the file as each completed cycle left it
    cs          \* a call of create_slide: [pc, subtitle, graphics, elements]

vars == <<reportlab, fs, pc, runs, clicked, slide, story, pdf_file,
          pdf_bytes, log, offers, afters, cs>>

PdfName == "cloud_security_ccsp.pdf"

----------------------------------------------------------------------------
\* Content of the ten stories

\* Mutant: the Compliance series ends below its Planning value.
create_bar_chart_dip ==
    [data |-> << <<100, 90, 95, 95>>, <<0, 90, 80, 90>>,
                 <<0, 0, 80, 80>>, <<0, 0, 75, 75>> >>,
     categoryNames |-> <<"Planning", "Implementation", "Optimization", "Overall">>,
     valueMin |-> 0,
     valueMax |-> 100,
     fills |-> <<"PRIMARY_BLUE", "ACCENT_RED", "GREEN", "PURPLE">>]

\* create_bar_chart(): the drawing's VerticalBarChart; data[i] is series i
\* (Compliance, Attack Surface Reduction, MTTD Reduction, MTTR Improvement),
\* one value per category.
create_bar_chart ==
    [data |-> << <<100, 90, 95, 100>>, <<0, 90, 80, 90>>,
                 <<0, 0, 80, 80>>, <<0, 0, 75, 75>> >>,
     categoryNames |-> <<"Planning", "Implementation", "Optimization", "Overall">>,
     valueMin |-> 0,
     valueMax |-> 100,
     fills |-> <<"PRIMARY_BLUE", "ACCENT_RED", "GREEN", "PURPLE">>]

Block(k, kind) == [slide |-> k, kind |-> kind]

\* Mutant: slide 1 puts its callout table before the title.
SlideKindsTitleLate(k) ==
    CASE k = 1 -> <<"accent", "title", "spacer", "statgrid">>
      [] k = 2 -> <<"title", "body", "mono">>
      [] k = 6 -> <<"title", "body", "callout">>
      [] k = 7 -> <<"title", "body", "spacer", "chart", "mono">>
      [] k = 10 -> <<"title", "body", "callout">>
      [] OTHER -> <<"title", "body">>

\* The flowables appended to `story` for slide k, in source order.
SlideKinds(k) ==
    CASE k = 1 -> <<"title", "accent", "spacer", "statgrid">>
      [] k = 2 -> <<"title", "body", "mono">>
      [] k = 6 -> <<"title", "body", "callout">>
      [] k = 7 -> <<"title", "body", "spacer", "chart", "mono">>
      [] k = 10 -> <<"title", "body", "callout">>
      [] OTHER -> <<"title", "body">>

\* The chart flowable carries the drawing create_bar_chart() returned.
Flowable(k, kind) ==
    IF kind = "chart"
       THEN [slide |-> k, kind |-> kind, drawing |-> create_bar_chart]
       ELSE Block(k, kind)

SlideBlocks(k) == [i \in 1..Len(SlideKinds(k)) |-> Flowable(k, SlideKinds(k)[i])]

----------------------------------------------------------------------------
\* The file and the run log

NoFile == [exists |-> FALSE, pages |-> <<>>, writer |-> NoSession]

\* Mutant: the build adds its pages to what the file already holds.
BuildFileAppend(f, st, s) ==
    [exists |-> TRUE, pages |-> f.pages \o <<st>>, writer |-> s]

\* doc.build(story) by session s: SimpleDocTemplate opens a new canvas on
\* the template's filename and saves it, so the file is created or
\* truncated and then holds the pages of this story alone.
BuildFile(f, st, s) == [exists |-> TRUE, pages |-> <<st>>, writer |-> s]

Ev(op, arg) == [op |-> op, arg |-> arg]

HasOp(l, op) == \E i \in DOMAIN l : l[i].op = op

CountOp(l, op) == Cardinality({i \in DOMAIN l : l[i].op = op})

Terminal == {"done", "crashed", "stopped"}

\* The flowables a caller may pass as `graphics`.
VisualKinds == {"statgrid", "chart", "callout", "mono"}

\* No call of create_slide is in progress.
NoCall == [pc |-> "idle", subtitle |-> "", graphics |-> <<>>,
           elements |-> <<>>]

----------------------------------------------------------------------------
Init ==
    /\ reportlab \in BOOLEAN
    /\ fs = NoFile
    /\ pc = [s \in Sessions |-> "idle"]
    /\ runs = [s \in Sessions |-> 0]
    /\ clicked = [s \in Sessions |-> FALSE]
    /\ slide = [s \in Sessions |-> 0]
    /\ story = [s \in Sessions |-> <<>>]
    /\ pdf_file = [s \in Sessions |-> ""]
    /\ pdf_bytes = [s \in Sessions |-> <<>>]
    /\ log = [s \in Sessions |-> <<>>]
    /\ offers = [s \in Sessions |-> <<>>]
    /\ afters = [s \in Sessions |-> <<>>]
    /\ cs = NoCall

\* The run ends with an uncaught exception.
Raise(s, op, arg) ==
    /\ pc' = [pc EXCEPT ![s] = "crashed"]
    /\ log' = [log EXCEPT ![s] = Append(@, Ev(op, arg))]

\* Streamlit starts a script run: the first page load, or a rerun after a
\* widget interaction.  The button can only have been clicked if the
\* previous run drew it.
StartRun(s) ==
    /\ pc[s] \in Terminal \cup {"idle"}
    /\ runs[s] < MaxRuns
    /\ \E c \in (IF HasOp(log[s], "button") THEN BOOLEAN ELSE {FALSE}) :
           clicked' = [clicked EXCEPT ![s] = c]
    /\ runs' = [runs EXCEPT ![s] = @ + 1]
    /\ pc' = [pc EXCEPT ![s] = "imports"]
    /\ log' = [log EXCEPT ![s] = <<>>]
    /\ slide' = [slide EXCEPT ![s] = 0]
    /\ story' = [story EXCEPT ![s] = <<>>]
    /\ pdf_file' = [pdf_file EXCEPT ![s] = ""]
    /\ pdf_bytes' = [pdf_bytes EXCEPT ![s] = <<>>]
    /\ UNCHANGED <<cs, reportlab, fs, offers, afters>>

\* Lines 6-16: the unguarded imports.
Imports(s) ==
    /\ pc[s] = "imports"
    /\ IF reportlab
          THEN /\ pc' = [pc EXCEPT ![s] = "guard"]
               /\ UNCHANGED log
          ELSE Raise(s, "ImportError", 9)
    /\ UNCHANGED <<cs, reportlab, fs, runs, clicked, slide, story, pdf_file,
                   pdf_bytes, offers, afters>>

\* Lines 18-25: try: from reportlab.lib import colors / except ImportError.
Guard(s) ==
    /\ pc[s] = "guard"
    /\ IF reportlab
          THEN /\ pc' = [pc EXCEPT ![s] = "setup"]
               /\ UNCHANGED log
          ELSE /\ pc' = [pc EXCEPT ![s] = "stopped"]
               /\ log' = [log EXCEPT ![s] = @ \o
                          <<Ev("st.error", 21), Ev("st.error", 22),
                            Ev("st.error", 23), Ev("st.error", 24),
                            Ev("st.stop", 25)>>]
    /\ UNCHANGED <<cs, reportlab, fs, runs, clicked, slide, story, pdf_file,
                   pdf_bytes, offers, afters>>

\* Lines 27-41 and 343-344: colours, styles, st.title, st.write.
Setup(s) ==
    /\ pc[s] = "setup"
    /\ pc' = [pc EXCEPT ![s] = "button"]
    /\ log' = [log EXCEPT ![s] = @ \o <<Ev("st.title", 343), Ev("st.write", 344)>>]
    /\ UNCHANGED <<cs, reportlab, fs, runs, clicked, slide, story, pdf_file,
                   pdf_bytes, offers, afters>>

\* Mutant: the handler runs whether or not the button was clicked.
ButtonAlways(s) == TRUE

\* Line 346: what st.button("Generate and Download PDF") returns.
ButtonPressed(s) == clicked[s]

\* Lines 346-348: the button is drawn; if it was clicked the spinner opens
\* and generate_pdf() is called.
Button(s) ==
    /\ pc[s] = "button"
    /\ IF ButtonPressed(s)
          THEN /\ pc' = [pc EXCEPT ![s] = "generate"]
               /\ log' = [log EXCEPT ![s] = @ \o
                          <<Ev("button", 1), Ev("generate_pdf", 348)>>]
          ELSE /\ pc' = [pc EXCEPT ![s] = "done"]
               /\ log' = [log EXCEPT ![s] = Append(@, Ev("button", 0))]
    /\ UNCHANGED <<cs, reportlab, fs, runs, clicked, slide, story, pdf_file,
                   pdf_bytes, offers, afters>>

\* Lines 111-115: pdf_file, doc = SimpleDocTemplate(pdf_file), story = [].
\* Creating the template does not touch the file.
GenStart(s) ==
    /\ pc[s] = "generate"
    /\ slide' = [slide EXCEPT ![s] = 1]
    /\ story' = [story EXCEPT ![s] = <<>>]
    /\ pc' = [pc EXCEPT ![s] = "append"]
    /\ UNCHANGED <<cs, reportlab, fs, runs, clicked, pdf_file, pdf_bytes, log,
                   offers, afters>>

\* The story.append(...) calls of the current slide.
AppendSlide(s) ==
    /\ pc[s] = "append"
    /\ story' = [story EXCEPT ![s] = @ \o SlideBlocks(slide[s])]
    /\ pc' = [pc EXCEPT ![s] = "build"]
    /\ UNCHANGED <<cs, reportlab, fs, runs, clicked, slide, pdf_file, pdf_bytes,
                   log, offers, afters>>

\* Mutant: a failed build is caught and the render carries on.
BuildSwallowed(s) ==
    /\ pc[s] = "build"
    /\ \E ok \in BOOLEAN :
          /\ IF ok
                THEN /\ fs' = BuildFile(fs, story[s], s)
                     /\ log' = [log EXCEPT ![s] = Append(@, Ev("doc.build", slide[s]))]
                ELSE /\ log' = [log EXCEPT ![s] = Append(@, Ev("build_error", slide[s]))]
                     /\ UNCHANGED fs
          /\ pc' = [pc EXCEPT ![s] =
                       IF slide[s] < NumSlides THEN "reset" ELSE "return"]
    /\ UNCHANGED <<cs, reportlab, runs, clicked, slide, story, pdf_file,
                   pdf_bytes, offers, afters>>

\* doc.build(story) of the current slide.  A build that raises leaves the
\* file as it was and ends the run: nothing in generate_pdf or in the
\* button handler catches it.
Build(s) ==
    /\ pc[s] = "build"
    /\ \E ok \in BOOLEAN :
          IF ok
             THEN /\ fs' = BuildFile(fs, story[s], s)
                  /\ log' = [log EXCEPT ![s] = Append(@, Ev("doc.build", slide[s]))]
                  /\ pc' = [pc EXCEPT ![s] =
                               IF slide[s] < NumSlides THEN "reset" ELSE "return"]
             ELSE /\ Raise(s, "build_error", slide[s])
                  /\ UNCHANGED fs
    /\ UNCHANGED <<cs, reportlab, runs, clicked, slide, story, pdf_file,
                   pdf_bytes, offers, afters>>

\* Mutant: the reset after a build is missing.
KeepStory(st) == st

\* story = [] after a build.
ResetStory(st) == <<>>

\* Lines 121, 147, ..., 321: reset the story and go on to the next slide.
Reset(s) ==
    /\ pc[s] = "reset"
    /\ story' = [story EXCEPT ![s] = ResetStory(@)]
    /\ slide' = [slide EXCEPT ![s] = @ + 1]
    /\ pc' = [pc EXCEPT ![s] = "append"]
    /\ UNCHANGED <<cs, reportlab, fs, runs, clicked, pdf_file, pdf_bytes, log,
                   offers, afters>>

\* Line 340 and line 348: return pdf_file; pdf_file = generate_pdf().
ReturnPath(s) ==
    /\ pc[s] = "return"
    /\ pdf_file' = [pdf_file EXCEPT ![s] = PdfName]
    /\ log' = [log EXCEPT ![s] = Append(@, Ev("return", 340))]
    /\ pc' = [pc EXCEPT ![s] = "read"]
    /\ UNCHANGED <<cs, reportlab, fs, runs, clicked, slide, story, pdf_bytes,
                   offers, afters>>

\* Mutant: the download is offered without the file having been read.
ReadFileSkipped(s) ==
    /\ pc[s] = "read"
    /\ pc' = [pc EXCEPT ![s] = "download"]
    /\ UNCHANGED <<cs, reportlab, fs, runs, clicked, slide, story, pdf_file,
                   pdf_bytes, log, offers, afters>>

\* Lines 349-350: open(pdf_file, "rb") and f.read() of the whole file.
\* open raises FileNotFoundError when the file is gone, and any read may
\* raise an I/O error.
ReadFile(s) ==
    /\ pc[s] = "read"
    /\ \E ok \in BOOLEAN :
          IF ok /\ fs.exists
             THEN /\ pdf_bytes' = [pdf_bytes EXCEPT ![s] = fs.pages]
                  /\ log' = [log EXCEPT ![s] = Append(@, Ev("read", 350))]
                  /\ pc' = [pc EXCEPT ![s] = "download"]
             ELSE /\ Raise(s, "read_error", 349)
                  /\ UNCHANGED pdf_bytes
    /\ UNCHANGED <<cs, reportlab, fs, runs, clicked, slide, story, pdf_file,
                   offers, afters>>

\* Lines 351-356: st.download_button(data=pdf_bytes, ...).
Download(s) ==
    /\ pc[s] = "download"
    /\ \E ok \in BOOLEAN :
          IF ok
             THEN /\ offers' = [offers EXCEPT ![s] = Append(@, pdf_bytes[s])]
                  /\ log' = [log EXCEPT ![s] = Append(@, Ev("download_button", 351))]
                  /\ pc' = [pc EXCEPT ![s] = "success"]
             ELSE /\ Raise(s, "download_error", 351)
                  /\ UNCHANGED offers
    /\ UNCHANGED <<cs, reportlab, fs, runs, clicked, slide, story, pdf_file,
                   pdf_bytes, afters>>

\* Line 357: st.success(...).
Success(s) ==
    /\ pc[s] = "success"
    /\ \E ok \in BOOLEAN :
          IF ok
             THEN /\ log' = [log EXCEPT ![s] = Append(@, Ev("st.success", 357))]
                  /\ pc' = [pc EXCEPT ![s] = "exists"]
             ELSE Raise(s, "success_error", 357)
    /\ UNCHANGED <<cs, reportlab, fs, runs, clicked, slide, story, pdf_file,
                   pdf_bytes, offers, afters>>

\* Line 359: if os.path.exists(pdf_file).
CheckExists(s) ==
    /\ pc[s] = "exists"
    /\ IF fs.exists
          THEN /\ pc' = [pc EXCEPT ![s] = "remove"]
               /\ UNCHANGED afters
          ELSE /\ pc' = [pc EXCEPT ![s] = "done"]
               /\ afters' = [afters EXCEPT ![s] = Append(@, fs)]
    /\ UNCHANGED <<cs, reportlab, fs, runs, clicked, slide, story, pdf_file,
                   pdf_bytes, log, offers>>

\* Mutant: the clean-up leaves the file in place.
RemoveNothing(f) == f

\* os.remove(path) on an existing file.
RemoveFile(f) == NoFile

\* Line 360: os.remove(pdf_file); raises FileNotFoundError when the file
\* has gone since the check.
Remove(s) ==
    /\ pc[s] = "remove"
    /\ IF fs.exists
          THEN /\ fs' = RemoveFile(fs)
               /\ log' = [log EXCEPT ![s] = Append(@, Ev("os.remove", 360))]
               /\ pc' = [pc EXCEPT ![s] = "done"]
               /\ afters' = [afters EXCEPT ![s] = Append(@, fs')]
          ELSE /\ Raise(s, "remove_error", 360)
               /\ UNCHANGED <<fs, afters>>
    /\ UNCHANGED <<cs, reportlab, runs, clicked, slide, story, pdf_file,
                   pdf_bytes, offers>>

----------------------------------------------------------------------------
\* create_slide(doc, title, content, graphics=None, subtitle=None).  The
\* helper is not called by the script; it is modelled as callable with any
\* arguments.  None and the empty value take the same branch of
\* `if subtitle:` and `if graphics:`, so "" and <<>> stand for both.

AppVars == <<reportlab, fs, pc, runs, clicked, slide, story, pdf_file,
             pdf_bytes, log, offers, afters>>

\* Lines 44-45: the call and elements = [].
CsCall ==
    /\ cs.pc = "idle"
    /\ \E sub \in {"", "subtitle"} :
       \E n \in 0..MaxGraphics :
       \E g \in [1..n -> VisualKinds] :
           cs' = [pc |-> "title", subtitle |-> sub,
                  graphics |-> [i \in 1..n |-> Flowable(0, g[i])],
                  elements |-> <<>>]
    /\ UNCHANGED AppVars

\* Line 46: elements.append(Paragraph(title, title_style)).
CsTitle ==
    /\ cs.pc = "title"
    /\ cs' = [cs EXCEPT !.elements = Append(@, Block(0, "title")),
                        !.pc = "subtitle"]
    /\ UNCHANGED AppVars

\* Lines 47-56: if subtitle: the single-cell ACCENT_RED table and a spacer.
CsSubtitle ==
    /\ cs.pc = "subtitle"
    /\ cs' = [cs EXCEPT !.elements =
                            IF cs.subtitle # ""
                               THEN @ \o <<Block(0, "accent"), Block(0, "spacer")>>
                               ELSE @,
                        !.pc = "body"]
    /\ UNCHANGED AppVars

\* Mutant: the body paragraph is not appended.
CsBodyForgot ==
    /\ cs.pc = "body"
    /\ cs' = [cs EXCEPT !.pc = "graphics"]
    /\ UNCHANGED AppVars

\* Line 57: elements.append(Paragraph(content, body_style)).
CsBody ==
    /\ cs.pc = "body"
    /\ cs' = [cs EXCEPT !.elements = Append(@, Block(0, "body")),
                        !.pc = "graphics"]
    /\ UNCHANGED AppVars

\* Lines 58-59: if graphics: elements.extend(graphics).
CsGraphics ==
    /\ cs.pc = "graphics"
    /\ cs' = [cs EXCEPT !.elements =
                            IF cs.graphics # <<>> THEN @ \o cs.graphics ELSE @,
                        !.pc = "spacer"]
    /\ UNCHANGED AppVars

\* Line 60: elements.append(Spacer(1, 0.3*inch)).
CsSpacer ==
    /\ cs.pc = "spacer"
    /\ cs' = [cs EXCEPT !.elements = Append(@, Block(0, "spacer")),
                        !.pc = "build"]
    /\ UNCHANGED AppVars

\* Line 61: doc.build(elements) on the caller's document; the call returns
\* and its locals are gone.
CsBuild ==
    /\ cs.pc = "build"
    /\ cs' = NoCall
    /\ UNCHANGED AppVars

CreateSlide ==
    \/ CsCall
    \/ CsTitle
    \/ CsSubtitle
    \/ CsBody
    \/ CsGraphics
    \/ CsSpacer
    \/ CsBuild

----------------------------------------------------------------------------
Step(s) ==
    \/ StartRun(s)
    \/ Imports(s)
    \/ Guard(s)
    \/ Setup(s)
    \/ Button(s)
    \/ GenStart(s)
    \/ AppendSlide(s)
    \/ Build(s)
    \/ Reset(s)
    \/ ReturnPath(s)
    \/ ReadFile(s)
    \/ Download(s)
    \/ Success(s)
    \/ CheckExists(s)
    \/ Remove(s)

\* One session: the single-threaded, one-request-at-a-time use of the app.
Next == \E s \in {1} : Step(s)

Spec == Init /\ [][Next]_vars

\* Two sessions of the same server, their script runs interleaved.
NextConc == \E s \in Sessions : Step(s)

SpecConc == Init /\ [][NextConc]_vars

----------------------------------------------------------------------------
\* Properties

TypeOK ==
    /\ reportlab \in BOOLEAN
    /\ fs.exists \in BOOLEAN
    /\ fs.writer \in Sessions \cup {NoSession}
    /\ \A s \in Sessions :
          /\ runs[s] \in 0..MaxRuns
          /\ slide[s] \in 0..NumSlides
          /\ clicked[s] \in BOOLEAN
          /\ pdf_file[s] \in {"", PdfName}

IsPrefix(a, b) == Len(a) <= Len(b) /\ \A i \in DOMAIN a : a[i] = b[i]

\* The deck as the output contract describes it: one page group per slide,
\* in slide order.
WholeDeck == [k \in 1..NumSlides |-> SlideBlocks(k)]

\* C1: after generate_pdf() has returned, the file holds the page groups of
\* all ten slides in slide order 1..10.
C1_AllSlidesInFile ==
    \A s \in Sessions : pc[s] = "read" => fs.exists /\ fs.pages = WholeDeck

RemediationLog ==
    <<Ev("st.error", 21), Ev("st.error", 22), Ev("st.error", 23),
      Ev("st.error", 24), Ev("st.stop", 25)>>

\* C2: with reportlab not importable, a run shows exactly the four
\* remediation messages, halts through st.stop and never calls generate_pdf.
C2_GuardShowsRemediation ==
    \A s \in Sessions :
        (~reportlab /\ pc[s] \in Terminal) =>
            /\ pc[s] = "stopped"
            /\ log[s] = RemediationLog
            /\ pdf_file[s] = ""

\* C3: once the render has completed, the file is gone at the end of the
\* run on every control path, whether or not the download step succeeded.
C3_CleanupOnEveryPath ==
    \A s \in Sessions :
        (pc[s] \in Terminal /\ HasOp(log[s], "return")) => ~fs.exists

\* C4: after a cycle in which render, read, download offer and success
\* message all succeeded, the file does not exist.
C4_FileGoneAfterSuccess ==
    \A s \in Sessions :
        (pc[s] = "done" /\ HasOp(log[s], "st.success")) => ~fs.exists

C4_Witness ==
    \E s \in Sessions :
        /\ pc[s] = "done"
        /\ HasOp(log[s], "st.success")
        /\ HasOp(log[s], "os.remove")

PipelineOps == {"generate_pdf", "doc.build", "return", "read",
                "download_button", "os.remove"}

\* trigger, render slides 1..10, return the path, read, offer, delete.
Pipeline ==
    <<Ev("generate_pdf", 348)>>
    \o [k \in 1..NumSlides |-> Ev("doc.build", k)]
    \o <<Ev("return", 340), Ev("read", 350), Ev("download_button", 351),
         Ev("os.remove", 360)>>

InPipeline(e) == e.op \in PipelineOps

\* C5: the steps of a triggered run happen in the order render all slides,
\* return the path, read the bytes, offer the download, delete the file;
\* the download is offered with the fully read buffer and the file is not
\* deleted before it was read.
C5_StepOrder ==
    \A s \in Sessions :
        /\ IsPrefix(SelectSeq(log[s], InPipeline), Pipeline)
        /\ pc[s] = "download" => pdf_bytes[s] = fs.pages
        /\ HasOp(log[s], "download_button") =>
              /\ HasOp(log[s], "read")
              /\ offers[s][Len(offers[s])] = pdf_bytes[s]
        /\ HasOp(log[s], "os.remove") => HasOp(log[s], "read")

C5_Witness ==
    \E s \in Sessions :
        pc[s] = "done" /\ SelectSeq(log[s], InPipeline) = Pipeline

\* C6: a run calls generate_pdf exactly once if the button was clicked in
\* it and not at all otherwise; a run without a click builds, reads, offers
\* and deletes nothing.
C6_OneRenderPerClick ==
    \A s \in Sessions :
        /\ CountOp(log[s], "generate_pdf") =
              (IF clicked[s] /\ HasOp(log[s], "button") THEN 1 ELSE 0)
        /\ ~clicked[s] =>
              /\ \A i \in DOMAIN log[s] : ~InPipeline(log[s][i])
              /\ slide[s] = 0
              /\ story[s] = <<>>
              /\ pdf_file[s] = ""
              /\ pdf_bytes[s] = <<>>

\* A run without a click has ended after an earlier cycle completed.
C6_Witness ==
    \E s \in Sessions :
        /\ pc[s] = "done"
        /\ ~clicked[s]
        /\ HasOp(log[s], "button")
        /\ Len(afters[s]) >= 1

\* C7: every cycle offers the same content as the first and leaves the
\* file system as the first did, whatever earlier cycles left behind.
C7_Idempotent ==
    \A s \in Sessions :
        /\ \A i \in DOMAIN offers[s] : offers[s][i] = offers[s][1]
        /\ \A i \in DOMAIN afters[s] : afters[s][i] = afters[s][1]

C7_Witness ==
    \E s \in Sessions : Len(offers[s]) >= 2 /\ Len(afters[s]) >= 2

\* C8: with two cycles interleaved, a cycle that reaches its read step
\* finds the file its own completed render produced.
C8_Isolated ==
    \A s \in Sessions :
        pc[s] = "read" =>
            /\ fs.exists
            /\ fs.writer = s
            /\ fs.pages = <<SlideBlocks(NumSlides)>>

\* C9: a failed doc.build ends the run with the error: nothing is read,
\* offered or announced afterwards and no build is attempted again.
C9_RenderFailurePropagates ==
    \A s \in Sessions :
        HasOp(log[s], "build_error") =>
            /\ pc[s] = "crashed"
            /\ log[s][Len(log[s])].op = "build_error"
            /\ CountOp(log[s], "build_error") = 1
            /\ ~HasOp(log[s], "read")
            /\ ~HasOp(log[s], "download_button")
            /\ ~HasOp(log[s], "st.success")
            /\ pdf_file[s] = ""
            /\ pdf_bytes[s] = <<>>

\* The build of a slide after the first failed.
C9_Witness ==
    \E s \in Sessions :
        HasOp(log[s], "build_error") /\ HasOp(log[s], "doc.build")

\* C10: generate_pdf makes exactly ten doc.build calls, and the story of
\* each call holds the blocks of its own slide and of no other, so no page
\* group mixes two slides.
C10_OneStoryPerSlide ==
    \A s \in Sessions :
        /\ pc[s] = "build" =>
              /\ story[s] # <<>>
              /\ \A i \in DOMAIN story[s] : story[s][i].slide = slide[s]
        /\ pc[s] = "append" => story[s] = <<>>
        /\ CountOp(log[s], "doc.build") <= NumSlides
        /\ HasOp(log[s], "return") => CountOp(log[s], "doc.build") = NumSlides
        /\ \A p \in DOMAIN fs.pages :
              \A i, j \in DOMAIN fs.pages[p] :
                  fs.pages[p][i].slide = fs.pages[p][j].slide

C10_Witness ==
    \E s \in Sessions :
        /\ HasOp(log[s], "return")
        /\ CountOp(log[s], "doc.build") = NumSlides
        /\ fs.exists

\* C11: every story handed to doc.build starts with the title paragraph of
\* its own slide, and the builds come in slide order 1, 2, ..., 10.
C11_TitleFirstInOrder ==
    \A s \in Sessions :
        /\ pc[s] = "build" =>
              /\ story[s] # <<>>
              /\ story[s][1] = Block(slide[s], "title")
        /\ \A p \in DOMAIN fs.pages :
              fs.pages[p] # <<>> /\ fs.pages[p][1].kind = "title"
        /\ LET builds == SelectSeq(log[s], LAMBDA e : e.op = "doc.build")
           IN  /\ \A i \in DOMAIN builds : builds[i].arg = i
               /\ builds # <<>> =>
                     /\ fs.writer = s => fs.pages[1][1].slide = Len(builds)
                     /\ pc[s] = "build" => slide[s] = Len(builds) + 1

\* The last of the ten stories is about to be committed.
C11_Witness ==
    \E s \in Sessions :
        /\ pc[s] = "build"
        /\ slide[s] = NumSlides
        /\ story[s][1] = Block(NumSlides, "title")
        /\ CountOp(log[s], "doc.build") = NumSlides - 1

SeqMax(q) == CHOOSE m \in {q[i] : i \in DOMAIN q} :
                 \A i \in DOMAIN q : q[i] <= m

ChartShapeOK(d) ==
    /\ d.categoryNames = <<"Planning", "Implementation", "Optimization", "Overall">>
    /\ Len(d.data) <= Len(d.categoryNames)
    /\ \A i \in DOMAIN d.data :
          /\ Len(d.data[i]) = Len(d.categoryNames)
          /\ (\E j \in DOMAIN d.data[i] : d.data[i][j] # 0) =>
                d.data[i][Len(d.categoryNames)] = SeqMax(d.data[i])

\* C12: the bar chart of the case-study slide has the 4 categories
\* Planning, Implementation, Optimization, Overall, at most 4 series of 4
\* values, and in every series with a nonzero value the Overall value is
\* the maximum of the series.
C12_ChartData ==
    \A s \in Sessions :
        /\ \A i \in DOMAIN story[s] :
              story[s][i].kind = "chart" => ChartShapeOK(story[s][i].drawing)
        /\ \A p \in DOMAIN fs.pages : \A i \in DOMAIN fs.pages[p] :
              fs.pages[p][i].kind = "chart" => ChartShapeOK(fs.pages[p][i].drawing)

\* The case-study story, chart included, has been written to the file.
C12_Witness ==
    \E p \in DOMAIN fs.pages : \E i \in DOMAIN fs.pages[p] :
        /\ fs.pages[p][i].kind = "chart"
        /\ fs.pages[p][i].slide = 7
        /\ Len(fs.pages[p][i].drawing.data) = 4

IsSpacing(b) == b.kind = "spacer"

\* A story without its spacers.
Laid(st) == SelectSeq(st, LAMBDA b : ~IsSpacing(b))

\* Title, then the accent callout if there is one, then the body paragraph,
\* then visual attachments only; spacers may stand between blocks.
BlockOrderOK(st) ==
    LET q == Laid(st)
    IN  /\ st # <<>>
        /\ st[1].kind = "title"
        /\ \E b \in {2, 3} :
              /\ b <= Len(q)
              /\ q[b].kind = "body"
              /\ b = 3 => q[2].kind = "accent"
              /\ \A i \in (b + 1)..Len(q) : q[i].kind \in VisualKinds

\* The same order for a story that has no body paragraph.
BodilessOrderOK(st) ==
    LET q == Laid(st)
    IN  /\ st # <<>>
        /\ st[1].kind = "title"
        /\ Len(q) >= 2
        /\ q[2].kind = "accent"
        /\ \A i \in 3..Len(q) : q[i].kind \in VisualKinds

\* C13 as stated: every story committed, by create_slide or inline in
\* generate_pdf, is title, optional accent callout, body paragraph, visual
\* attachments, in that order, and so contains a body paragraph.
C13_BlockOrder ==
    /\ cs.pc = "build" => BlockOrderOK(cs.elements)
    /\ \A s \in Sessions : pc[s] = "build" => BlockOrderOK(story[s])

\* C13 amended: the order holds for create_slide and for slides 2..10; the
\* story of slide 1 has no body paragraph and is title, accent callout,
\* stat grid.  No accent callout follows a body or a visual in any story.
C13_BlockOrderButTitleSlide ==
    /\ cs.pc = "build" => BlockOrderOK(cs.elements)
    /\ \A s \in Sessions :
          pc[s] = "build" =>
              IF slide[s] = 1
                 THEN /\ BodilessOrderOK(story[s])
                      /\ \A i \in DOMAIN story[s] : story[s][i].kind # "body"
                 ELSE BlockOrderOK(story[s])

\* create_slide is about to commit a story with callout, body and two
\* attachments while generate_pdf is about to commit slide 6.
C13_Witness ==
    /\ cs.pc = "build"
    /\ cs.subtitle # ""
    /\ Len(cs.graphics) = 2
    /\ \E s \in Sessions : pc[s] = "build" /\ slide[s] = 6

\* The script runs of one session together with calls of create_slide.
NextSlides == Next \/ CreateSlide

SpecSlides == Init /\ [][NextSlides]_vars

====
